---- MODULE Spec2Model ----
(***************************************************************************)
(* Block-diagonal operator of pylops (basicoperators/BlockDiag.py): the     *)
(* construction bookkeeping (offsets, shape, dtype), the serial and the     *)
(* multiprocessing evaluation of matvec / rmatvec, and the life cycle of    *)
(* the multiprocessing pool behind the nproc property.                      *)
(***************************************************************************)
EXTENDS Integers, Sequences, FiniteSets, TLC

\* ------------------------------------------------------------------ bounds
MaxOps == 2        \* longest list of sub-operators handed to BlockDiag
MaxProc == 2       \* largest number of processes asked for in the general runs
MaxPools == 2      \* mp.Pool objects created over the life of one BlockDiag

\* ------------------------------------------------- array elements and dtype
\* An array element is a Gaussian integer <<re, im>>; dtype is "float64" or
\* "complex128".
Re(z) == z[1]
Im(z) == z[2]
CAdd(a, b) == <<a[1] + b[1], a[2] + b[2]>>
CMul(a, b) == <<a[1] * b[1] - a[2] * b[2], a[1] * b[2] + a[2] * b[1]>>
Conj(a) == <<a[1], 0 - a[2]>>
IsRealVec(x) == \A k \in 1..Len(x) : Im(x[k]) = 0

\* Assigning into an array of the given dtype: numpy casts the value, and a
\* complex value stored in a float64 array loses its imaginary part.
Cast(dt, z) == IF dt = "float64" THEN <<z[1], 0>> ELSE z

\* np.dot(A, x) for a matrix given as a sequence of rows.
RECURSIVE RowDot(_, _, _)
RowDot(row, x, k) ==
    IF k = 0 THEN <<0, 0>>
    ELSE CAdd(RowDot(row, x, k - 1), CMul(row[k], x[k]))
MatMul(A, x) == [r \in 1..Len(A) |-> RowDot(A[r], x, Len(x))]

\* A.conj().T
ConjT(A) == [c \in 1..Len(A[1]) |-> [r \in 1..Len(A) |-> Conj(A[r][c])]]

\* np.vdot(a, b): sum of conj(a[k]) * b[k]
RECURSIVE VDotTo(_, _, _)
VDotTo(a, b, k) ==
    IF k = 0 THEN <<0, 0>>
    ELSE CAdd(VDotTo(a, b, k - 1), CMul(Conj(a[k]), b[k]))
VDot(a, b) == VDotTo(a, b, Len(a))

\* Python slice x[a:b] with 0-based bounds, clipped to the array.
Min(a, b) == IF a < b THEN a ELSE b
Slice(x, a, b) ==
    LET lo == Min(a, Len(x))
        hi == Min(b, Len(x))
    IN  IF hi <= lo THEN <<>> ELSE [k \in 1..(hi - lo) |-> x[lo + k]]

\* ndarray.squeeze() of a 1-D result: a result of one element becomes 0-d.
Squeeze(y) == [scalar |-> Len(y) = 1, data |-> y]
\* np.atleast_1d, applied by np.hstack to each of its arguments.
AtLeast1d(s) == s.data

\* ------------------------------------------------------------ sub-operators
\* A sub-operator is a record: kind "op" (a LinearOperator) or "array" (a raw
\* matrix to be wrapped), the matrix A of its forward, the matrix AH of its
\* adjoint, its dtype, and whether applying it raises.
Shape(op) == <<Len(op.A), Len(op.A[1])>>

MatrixMult(arr) ==
    [kind |-> "op", A |-> arr.A, AH |-> ConjT(arr.A), dtype |-> arr.dtype,
     raises |-> FALSE]

OpA == [kind |-> "op", A |-> << <<<<2, 0>>>> >>, AH |-> << <<<<2, 0>>>> >>,
        dtype |-> "float64", raises |-> FALSE]
ArrB == [kind |-> "array", A |-> << <<<<1, 0>>>>, <<<<3, 0>>>> >>, AH |-> <<>>,
         dtype |-> "float64", raises |-> FALSE]
OpC == [kind |-> "op", A |-> << <<<<1, 0>>, <<0, 1>>>> >>,
        AH |-> << <<<<1, 0>>>>, <<<<0, -1>>>> >>,
        dtype |-> "complex128", raises |-> FALSE]
OpFail == [kind |-> "op", A |-> << <<<<1, 0>>>> >>, AH |-> << <<<<1, 0>>>> >>,
           dtype |-> "float64", raises |-> TRUE]
OpSkew == [kind |-> "op", A |-> << <<<<2, 0>>>> >>, AH |-> << <<<<3, 0>>>> >>,
           dtype |-> "float64", raises |-> FALSE]
Leaves == {OpA, ArrB, OpC, OpFail, OpSkew}

\* The result of applying a sub-operator: a vector, or an exception.
Raised(what) == [ok |-> FALSE, err |-> what, y |-> <<>>]
Returned(y) == [ok |-> TRUE, err |-> "none", y |-> y]

\* oper.matvec(x) / oper.rmatvec(x) of a sub-operator.
LeafApply(op, dir, x) ==
    LET M == IF dir = "matvec" THEN op.A ELSE op.AH
    IN  IF op.raises THEN Raised("LeafError")
        ELSE IF Len(x) # Len(M[1]) THEN Raised("ValueError")
        ELSE Returned(MatMul(M, x))

\* The input vectors of the runs, of length n: the real ramp 1, 2, ..., n, the
\* real descent 1, 0, -1, ... and the imaginary ramp i, 2i, ..., ni.
Vec(kind, n) ==
    [k \in 1..n |-> IF kind = "ramp" THEN <<k, 0>>
                    ELSE IF kind = "descent" THEN <<2 - k, 0>>
                    ELSE <<0, k>>]
InVecs(kinds, n) == {Vec(kind, n) : kind \in kinds}

RECURSIVE SeqsUpTo(_, _)
SeqsUpTo(S, n) ==
    IF n = 0 THEN {<<>>}
    ELSE LET shorter == SeqsUpTo(S, n - 1)
         IN  shorter \cup {Append(s, e) : s \in {t \in shorter : Len(t) = n - 1}, e \in S}


\* -------------------------------------------------------------------- state
VARIABLES
    phase,      \* "new" before __init__, "ready", "busy" inside pool.starmap, "failed"
    ops,        \* the list handed to BlockDiag, which self.ops aliases
    dtypeArg,   \* the dtype argument of __init__ ("None" when left out)
    degs,       \* the numbers of processes the caller asks for
    u, v,       \* the caller's model vector and data vector
    nops, mops, \* self.nops, self.mops
    nnops,      \* self.nnops
    mmops,      \* self.mmops
    shape,      \* self.shape
    dtype,      \* self.dtype
    _nproc,     \* self._nproc
    pool,       \* self.pool: 0 for None, otherwise the id of a Pool object
    pools,      \* every Pool object created so far: state, size, live workers
    call,       \* the matvec / rmatvec call blocked in pool.starmap
    tasks,      \* the tasks of that starmap call
    res,        \* what the last completed operation returned or raised
    base,       \* the first matvec(u) result, taken before any pool existed
    deriv       \* a SecondDerivative operator, its two vectors and its results

vars == <<phase, ops, dtypeArg, degs, deriv, u, v, nops, mops, nnops, mmops, shape,
          dtype, _nproc, pool, pools, call, tasks, res, base>>

PoolIds == 1..MaxPools
NoPool == [state |-> "NONE", size |-> 0, workers |-> 0]
NoCall == [dir |-> "none", x |-> <<>>]
NoRes == [op |-> "none", status |-> "none", y |-> <<>>, xlen |-> 0, mode |-> 0, n |-> 0]
NoBase == [set |-> FALSE, y |-> <<>>]
NoDeriv == [N |-> 0, edge |-> FALSE, u |-> <<>>, v |-> <<>>,
            fwd |-> <<>>, adj |-> <<>>, ncalls |-> 0]

\* Total rows (d = 1) or columns (d = 2) of a list of sub-operators.
RECURSIVE SumDim(_, _, _)
SumDim(os, d, n) == IF n = 0 THEN 0 ELSE SumDim(os, d, n - 1) + Shape(os[n])[d]

InitWith(opsSet, dtypeSet, degSet, kinds) ==
    /\ phase = "new"
    /\ ops \in opsSet
    /\ dtypeArg \in dtypeSet
    /\ degs = degSet
    /\ u \in InVecs(kinds, SumDim(ops, 2, Len(ops)))
    /\ v \in InVecs(kinds, SumDim(ops, 1, Len(ops)))
    /\ nops = 0 /\ mops = 0 /\ nnops = <<>> /\ mmops = <<>> /\ shape = <<0, 0>>
    /\ dtype = "None"
    /\ _nproc = 0
    /\ pool = 0
    /\ pools = [p \in PoolIds |-> NoPool]
    /\ call = NoCall
    /\ tasks = <<>>
    /\ res = NoRes
    /\ base = NoBase
    /\ deriv = NoDeriv

\* Every list of one to MaxOps sub-operators, every dtype argument, and one
\* to MaxProc processes.
Init == InitWith(SeqsUpTo(Leaves, MaxOps) \ {<<>>}, {"None", "float64", "complex128"},
                 1..MaxProc, {"ramp", "descent", "imaginary"})

\* Three sub-operators, one of them a raw matrix, and a short list with a
\* sub-operator that raises; one to MaxProc processes.
PoolOps == {<<OpA, ArrB, OpC>>, <<ArrB, OpFail>>}
InitPool == InitWith(PoolOps, {"None"}, 1..MaxProc, {"ramp", "imaginary"})

\* ------------------------------------------------------------- construction
\* Lines 94-96: every element that is not a LinearOperator is replaced, in
\* the caller's list, by MatrixMult of it.
AdaptLeaves(os) ==
    [i \in 1..Len(os) |-> IF os[i].kind # "op" THEN MatrixMult(os[i]) ELSE os[i]]

\* Lines 97-98: nops[iop] = shape[0], mops[iop] = shape[1].
DimArray(os, d) == [i \in 1..Len(os) |-> Shape(os[i])[d]]

\* ndarray.sum()
RECURSIVE ArraySum(_, _)
ArraySum(a, n) == IF n = 0 THEN 0 ELSE ArraySum(a, n - 1) + a[n]

\* np.cumsum(a)
RECURSIVE CumSum(_)
CumSum(a) ==
    IF Len(a) = 0 THEN <<>>
    ELSE LET front == CumSum(SubSeq(a, 1, Len(a) - 1))
         IN  Append(front, (IF Len(front) = 0 THEN 0 ELSE front[Len(front)]) + a[Len(a)])

\* The offsets without the leading 0.
Offsets_noinsert(a) == CumSum(a)

\* np.insert(np.cumsum(a), 0, 0)
Offsets(a) == <<0>> \o CumSum(a)

\* _get_dtype(ops): the common type of the sub-operators' dtypes.
GetDtype(os) ==
    IF \E i \in 1..Len(os) : os[i].dtype = "complex128" THEN "complex128" ELSE "float64"

SelfDtype(arg, os) == IF arg = "None" THEN GetDtype(os) ELSE arg

Alive(ps) == {p \in PoolIds : ps[p].state # "NONE"}
NextId(ps) == Cardinality(Alive(ps)) + 1

\* A pool sized with the number of processes in use so far, not the new one.
NewPool_old(ps, n) ==
    [ps EXCEPT ![NextId(ps)] = [state |-> "RUN", size |-> _nproc, workers |-> _nproc]]

\* mp.Pool(processes=n): a new Pool object with n worker processes.
NewPool(ps, n) == [ps EXCEPT ![NextId(ps)] = [state |-> "RUN", size |-> n, workers |-> n]]

ConstructFields(nproc) ==
    LET adapted == AdaptLeaves(ops)
        rows == DimArray(adapted, 1)
        cols == DimArray(adapted, 2)
    IN  /\ ops' = adapted
        /\ nops' = ArraySum(rows, Len(rows))
        /\ mops' = ArraySum(cols, Len(cols))
        /\ nnops' = Offsets(rows)
        /\ mmops' = Offsets(cols)
        /\ _nproc' = nproc

\* BlockDiag.__init__(ops, nproc, dtype)
Construct(nproc) ==
    /\ phase = "new"
    /\ ConstructFields(nproc)
    /\ IF nproc > 1
       THEN /\ NextId(pools) \in PoolIds
            /\ pools' = NewPool(pools, nproc)
            /\ pool' = NextId(pools)
       ELSE UNCHANGED <<pool, pools>>
    /\ shape' = <<nops', mops'>>
    /\ dtype' = SelfDtype(dtypeArg, ops')
    /\ phase' = "ready"
    /\ res' = [NoRes EXCEPT !.op = "init", !.status = "ok", !.mode = nproc]
    /\ UNCHANGED <<dtypeArg, degs, deriv, u, v, call, tasks, base>>

\* __init__ when mp.Pool raises on line 107: no object comes into being, but
\* the caller's list has already been adapted.
ConstructFails(nproc) ==
    /\ phase = "new"
    /\ nproc > 1
    /\ ConstructFields(nproc)
    /\ phase' = "failed"
    /\ res' = [NoRes EXCEPT !.op = "init", !.status = "PoolError", !.mode = nproc]
    /\ UNCHANGED <<dtypeArg, degs, deriv, u, v, shape, dtype, pool, pools, call, tasks, base>>

\* --------------------------------------------------------------- evaluation
Zeros(n) == [k \in 1..n |-> <<0, 0>>]

\* y[a:b] = s on an array y of dtype dt: a 0-d value is broadcast over the
\* slice, a 1-D value must have the length of the slice, and every element
\* is cast to dt.
AssignSlice(y, a, b, s, dt) ==
    LET lo == Min(a, Len(y))
        hi == Min(b, Len(y))
        n == IF hi <= lo THEN 0 ELSE hi - lo
    IN  IF ~s.scalar /\ Len(s.data) # n THEN Raised("ValueError")
        ELSE Returned([k \in 1..Len(y) |->
                 IF lo < k /\ k <= hi
                 THEN Cast(dt, IF s.scalar THEN s.data[1] ELSE s.data[k - lo])
                 ELSE y[k]])

\* The offsets a call reads its input with and writes its output with.
InOff(dir) == IF dir = "matvec" THEN mmops ELSE nnops
OutOff(dir) == IF dir = "matvec" THEN nnops ELSE mmops
OutLen(dir) == IF dir = "matvec" THEN nops ELSE mops

\* The argument of sub-operator iop: x[mmops[iop]:mmops[iop + 1]] in matvec,
\* x[nnops[iop]:nnops[iop + 1]] in rmatvec (iop counts from 1 here).
LeafArg(dir, x, iop) == Slice(x, InOff(dir)[iop], InOff(dir)[iop + 1])

\* The loop swallowing the exception and returning what it has filled so far.
LoopRaise_swallow(r, y, n) == [ok |-> TRUE, err |-> "none", y |-> y, n |-> n]

\* What the serial loop does when a sub-operator raises: the exception leaves
\* the loop and the method.
LoopRaise(r, y, n) == [ok |-> FALSE, err |-> r.err, y |-> <<>>, n |-> n]

\* The loop of _matvec_serial / _rmatvec_serial from sub-operator iop on; n
\* counts the applications of sub-operators made so far.
RECURSIVE SerialLoop(_, _, _, _, _)
SerialLoop(dir, x, iop, y, n) ==
    IF iop > Len(ops) THEN [ok |-> TRUE, err |-> "none", y |-> y, n |-> n]
    ELSE LET r == LeafApply(ops[iop], dir, LeafArg(dir, x, iop))
         IN  IF ~r.ok THEN LoopRaise(r, y, n + 1)
             ELSE LET w == AssignSlice(y, OutOff(dir)[iop], OutOff(dir)[iop + 1],
                                       Squeeze(r.y), dtype)
                  IN  IF ~w.ok THEN LoopRaise(w, y, n + 1)
                      ELSE SerialLoop(dir, x, iop + 1, w.y, n + 1)

\* The adjoint loop applying the forward of each sub-operator.
_rmatvec_serial_fwd(x) == SerialLoop("matvec", x, 1, Zeros(mops), 0)

_matvec_serial(x) == SerialLoop("matvec", x, 1, Zeros(nops), 0)
_rmatvec_serial(x) == SerialLoop("rmatvec", x, 1, Zeros(mops), 0)
Serial(dir, x) == IF dir = "matvec" THEN _matvec_serial(x) ELSE _rmatvec_serial(x)

\* np.hstack(ys): the results one after the other, in the order of the list.
RECURSIVE HStack(_, _)
HStack(ys, n) == IF n = 0 THEN <<>> ELSE HStack(ys, n - 1) \o AtLeast1d(ys[n])

\* The list pool.starmap returns: the value of task i at position i.
StarmapValues(ts) == [i \in 1..Len(ts) |-> ts[i].y]

\* What pool.starmap does once every task has finished: it raises if a task
\* raised, otherwise it returns the list of values.
StarmapOutcome(ts) ==
    IF \E i \in 1..Len(ts) : ts[i].st = "failed"
    THEN [ok |-> FALSE, err |-> "LeafError", y |-> <<>>, n |-> Len(ts)]
    ELSE [ok |-> TRUE, err |-> "none",
          y |-> HStack(StarmapValues(ts), Len(ts)), n |-> Len(ts)]

\* The vector a call is made with: u for matvec, v for rmatvec, as it is
\* (delta = 0), with its last element dropped (-1) or with one appended (1).
Input(dir, delta) ==
    LET x == IF dir = "matvec" THEN u ELSE v
    IN  IF delta = 0 THEN x
        ELSE IF delta = 1 THEN Append(x, <<1, 0>>)
        ELSE SubSeq(x, 1, Len(x) - 1)

\* No check of the length at all.
LengthOk_any(dir, x) == TRUE

\* LinearOperator.matvec / rmatvec, the public entry: the length of x must be
\* shape[1] for matvec and shape[0] for rmatvec.
LengthOk(dir, x) == Len(x) = (IF dir = "matvec" THEN shape[2] ELSE shape[1])

Done(dir, x, r) ==
    [op |-> dir, status |-> IF r.ok THEN "ok" ELSE r.err, y |-> r.y,
     xlen |-> Len(x), mode |-> _nproc, n |-> r.n]

Dirs == {"matvec", "rmatvec"}
Deltas == {-1, 0, 1}

\* matvec(x) / rmatvec(x) with x of the wrong length: dimension mismatch.
ApplyRejected(dir, delta) ==
    /\ phase = "ready"
    /\ ~LengthOk(dir, Input(dir, delta))
    /\ res' = [op |-> dir, status |-> "ShapeError", y |-> <<>>,
               xlen |-> Len(Input(dir, delta)), mode |-> _nproc, n |-> 0]
    /\ UNCHANGED <<phase, ops, dtypeArg, degs, deriv, u, v, nops, mops, nnops, mmops,
                   shape, dtype, _nproc, pool, pools, call, tasks, base>>

\* _matvec / _rmatvec with self.nproc == 1.
ApplySerial(dir, delta) ==
    LET x == Input(dir, delta)
        r == Serial(dir, x)
    IN  /\ phase = "ready"
        /\ LengthOk(dir, x)
        /\ _nproc = 1
        /\ res' = Done(dir, x, r)
        /\ base' = IF dir = "matvec" /\ r.ok /\ ~base.set /\ Alive(pools) = {}
                   THEN [set |-> TRUE, y |-> r.y] ELSE base
        /\ UNCHANGED <<phase, ops, dtypeArg, degs, deriv, u, v, nops, mops, nnops, mmops,
                       shape, dtype, _nproc, pool, pools, call, tasks>>

\* _matvec / _rmatvec with self.nproc != 1: pool.starmap queues one task per
\* sub-operator and blocks. A pool that has been closed refuses the tasks.
ApplyMultiproc(dir, delta) ==
    LET x == Input(dir, delta)
    IN  /\ phase = "ready"
        /\ LengthOk(dir, x)
        /\ _nproc # 1
        /\ IF pool \in PoolIds /\ pools[pool].state = "RUN"
           THEN /\ phase' = "busy"
                /\ call' = [dir |-> dir, x |-> x]
                /\ tasks' = [i \in 1..Len(ops) |-> [st |-> "pending", y |-> Squeeze(<<>>)]]
                /\ UNCHANGED res
           ELSE /\ res' = [op |-> dir, status |-> "PoolNotRunning", y |-> <<>>,
                           xlen |-> Len(x), mode |-> _nproc, n |-> 0]
                /\ UNCHANGED <<phase, call, tasks>>
        /\ UNCHANGED <<ops, dtypeArg, degs, deriv, u, v, nops, mops, nnops, mmops,
                       shape, dtype, _nproc, pool, pools, base>>

Running(ts) == {i \in 1..Len(ts) : ts[i].st = "running"}
Pending(ts) == {i \in 1..Len(ts) : ts[i].st = "pending"}

\* An idle worker of the pool takes the next task of the queue.
WorkerTake ==
    /\ phase = "busy"
    /\ Pending(tasks) # {}
    /\ Cardinality(Running(tasks)) < pools[pool].size
    /\ LET i == CHOOSE j \in Pending(tasks) : \A k \in Pending(tasks) : j <= k
       IN  tasks' = [tasks EXCEPT ![i].st = "running"]
    /\ UNCHANGED <<phase, ops, dtypeArg, degs, deriv, u, v, nops, mops, nnops, mmops,
                   shape, dtype, _nproc, pool, pools, call, res, base>>

\* _matvec_rmatvec_map(op, x) in a worker: op(x).squeeze(), or the exception.
TaskResult(i) ==
    LET r == LeafApply(ops[i], call.dir, LeafArg(call.dir, call.x, i))
    IN  IF r.ok THEN [st |-> "done", y |-> Squeeze(r.y)]
        ELSE [st |-> "failed", y |-> Squeeze(<<>>)]

\* A worker finishes its task; the workers finish in any order.
WorkerFinish(i) ==
    /\ phase = "busy"
    /\ i \in Running(tasks)
    /\ tasks' = [tasks EXCEPT ![i] = TaskResult(i)]
    /\ UNCHANGED <<phase, ops, dtypeArg, degs, deriv, u, v, nops, mops, nnops, mmops,
                   shape, dtype, _nproc, pool, pools, call, res, base>>

\* The call closing the pool once starmap has returned.
StarmapReturn_closing ==
    /\ phase = "busy"
    /\ \A i \in 1..Len(tasks) : tasks[i].st \in {"done", "failed"}
    /\ res' = Done(call.dir, call.x, StarmapOutcome(tasks))
    /\ phase' = "ready"
    /\ call' = NoCall
    /\ tasks' = <<>>
    /\ pools' = [pools EXCEPT ![pool].state = "CLOSE"]
    /\ UNCHANGED <<ops, dtypeArg, degs, deriv, u, v, nops, mops, nnops, mmops,
                   shape, dtype, _nproc, pool, base>>

\* pool.starmap returns or raises, and with it _matvec_multiproc /
\* _rmatvec_multiproc.
StarmapReturn ==
    /\ phase = "busy"
    /\ \A i \in 1..Len(tasks) : tasks[i].st \in {"done", "failed"}
    /\ res' = Done(call.dir, call.x, StarmapOutcome(tasks))
    /\ phase' = "ready"
    /\ call' = NoCall
    /\ tasks' = <<>>
    /\ UNCHANGED <<ops, dtypeArg, degs, deriv, u, v, nops, mops, nnops, mmops,
                   shape, dtype, _nproc, pool, pools, base>>

\* ---------------------------------------------------------- the nproc setter
\* The setter that never closes the pool in use.
ClosePrevious_skip(ps) == ps

\* Lines 121-122: if self._nproc > 1, self.pool.close().
ClosePrevious(ps) ==
    IF _nproc > 1 THEN [ps EXCEPT ![pool].state = "CLOSE"] ELSE ps

\* nproc = nprocnew, with mp.Pool succeeding when it is called.
SetNproc(nprocnew) ==
    /\ phase = "ready"
    /\ IF nprocnew > 1
       THEN /\ NextId(pools) \in PoolIds
            /\ pools' = NewPool(ClosePrevious(pools), nprocnew)
            /\ pool' = NextId(pools)
       ELSE /\ pools' = ClosePrevious(pools)
            /\ UNCHANGED pool
    /\ _nproc' = nprocnew
    /\ res' = [NoRes EXCEPT !.op = "set_nproc", !.status = "ok", !.mode = nprocnew]
    /\ UNCHANGED <<phase, ops, dtypeArg, degs, deriv, u, v, nops, mops, nnops, mmops,
                   shape, dtype, call, tasks, base>>

\* nproc = nprocnew, with mp.Pool raising on line 124.
SetNprocFails(nprocnew) ==
    /\ phase = "ready"
    /\ nprocnew > 1
    /\ pools' = ClosePrevious(pools)
    /\ res' = [NoRes EXCEPT !.op = "set_nproc", !.status = "PoolError", !.mode = nprocnew]
    /\ UNCHANGED <<phase, ops, dtypeArg, degs, deriv, u, v, nops, mops, nnops, mmops,
                   shape, dtype, _nproc, pool, call, tasks, base>>

\* A worker process of a closed pool exits: Pool.close() lets the workers
\* run out, it does not wait for them.
WorkerExit(p) ==
    /\ pools[p].state = "CLOSE"
    /\ pools[p].workers > 0
    /\ pools' = [pools EXCEPT ![p].workers = @ - 1]
    /\ UNCHANGED <<phase, ops, dtypeArg, degs, deriv, u, v, nops, mops, nnops, mmops,
                   shape, dtype, _nproc, pool, call, tasks, res, base>>

\* ------------------------------------------------------- SecondDerivative
\* basicoperators/SecondDerivative.py for a one dimensional model (dims is
\* None, so reshape is False), on arrays of integers.
MaxN == 4          \* largest number of samples N of a SecondDerivative

\* The default sampling step of __init__.
sampling == 1

\* The values the samples of the input vectors are taken from.
SampleVals == {-1, 0, 2}
SampleVecs(n) == [1..n -> SampleVals]

\* A Python index, which counts from the end when negative, as a position
\* counted from 1.
At(n, i) == IF i < 0 THEN n + i + 1 ELSE i + 1

\* A Python slice bound, which counts from the end when negative, as a bound
\* counted from 0 and clipped to the array.
Bound(n, i) == IF i < 0 THEN (IF n + i < 0 THEN 0 ELSE n + i) ELSE Min(i, n)

\* x[a:b] with bounds of either sign.
PySlice(x, a, b) == Slice(x, Bound(Len(x), a), Bound(Len(x), b))

\* value / self.sampling ** 2
Scaled(value) == value \div (sampling * sampling)

\* ncp.zeros(self.N, self.dtype)
ZeroArray(n) == [k \in 1..n |-> 0]

\* y[a:b] = vals, y[a:b] += vals (sign 1) and y[a:b] -= vals (sign -1).
PutSlice(y, a, b, vals) ==
    LET lo == Bound(Len(y), a)
        hi == Bound(Len(y), b)
    IN  [k \in 1..Len(y) |-> IF lo < k /\ k <= hi THEN vals[k - lo] ELSE y[k]]
AddSlice(y, a, b, vals, sign) ==
    LET lo == Bound(Len(y), a)
        hi == Bound(Len(y), b)
    IN  [k \in 1..Len(y) |-> IF lo < k /\ k <= hi THEN y[k] + sign * vals[k - lo] ELSE y[k]]

\* y[i] = value and y[i] += value.
PutAt(y, i, value) == [y EXCEPT ![At(Len(y), i)] = value]
AddAt(y, i, value) == [y EXCEPT ![At(Len(y), i)] = @ + value]

\* Line 73: y[1:-1] = (x[2:] - 2 * x[1:-1] + x[0:-2]) / self.sampling ** 2
Centered(x) ==
    LET up == PySlice(x, 2, Len(x))
        mid == PySlice(x, 1, -1)
        down == PySlice(x, 0, -2)
    IN  [k \in 1..Len(mid) |-> Scaled(up[k] - 2 * mid[k] + down[k])]

\* Lines 75-76: the two edge samples of the forward.
MatvecEdge(y, x) ==
    LET n == Len(x)
        first == Scaled(x[At(n, 0)] - 2 * x[At(n, 1)] + x[At(n, 2)])
        last == Scaled(x[At(n, -3)] - 2 * x[At(n, -2)] + x[At(n, -1)])
    IN  PutAt(PutAt(y, 0, first), -1, last)

\* SecondDerivative._matvec(x), reshape False.
SecondDerivative_matvec(n, edge, x) ==
    LET y == PutSlice(ZeroArray(n), 1, -1, Centered(x))
    IN  IF edge THEN MatvecEdge(y, x) ELSE y

\* Lines 96-98: the interior samples scattered to their neighbours.
RmatvecInterior(y, x) ==
    LET mid == PySlice(x, 1, -1)
        a == AddSlice(y, 0, -2, [k \in 1..Len(mid) |-> Scaled(mid[k])], 1)
        b == AddSlice(a, 1, -1, [k \in 1..Len(mid) |-> Scaled(2 * mid[k])], -1)
    IN  AddSlice(b, 2, Len(y), [k \in 1..Len(mid) |-> Scaled(mid[k])], 1)

\* The edge samples of the adjoint written with the forward's formula.
RmatvecEdge_gather(y, x) ==
    LET n == Len(x)
        a == AddAt(y, 0, Scaled(x[At(n, 0)] - 2 * x[At(n, 1)] + x[At(n, 2)]))
    IN  AddAt(a, -1, Scaled(x[At(n, -3)] - 2 * x[At(n, -2)] + x[At(n, -1)]))

\* Lines 100-105: the first and the last sample scattered.
RmatvecEdge(y, x) ==
    LET n == Len(x)
        a == AddAt(y, 0, Scaled(x[At(n, 0)]))
        b == AddAt(a, 1, 0 - Scaled(2 * x[At(n, 0)]))
        c == AddAt(b, 2, Scaled(x[At(n, 0)]))
        d == AddAt(c, -3, Scaled(x[At(n, -1)]))
        e == AddAt(d, -2, 0 - Scaled(2 * x[At(n, -1)]))
    IN  AddAt(e, -1, Scaled(x[At(n, -1)]))

\* SecondDerivative._rmatvec(x), reshape False.
SecondDerivative_rmatvec(n, edge, x) ==
    LET y == RmatvecInterior(ZeroArray(n), x)
    IN  IF edge THEN RmatvecEdge(y, x) ELSE y

\* A SecondDerivative(N, edge=edge) and the two vectors of a dot test.
InitDeriv ==
    /\ phase = "failed"
    /\ ops = <<OpA>> /\ dtypeArg = "None" /\ degs = {}
    /\ u = <<>> /\ v = <<>>
    /\ nops = 0 /\ mops = 0 /\ nnops = <<>> /\ mmops = <<>> /\ shape = <<0, 0>>
    /\ dtype = "None" /\ _nproc = 0 /\ pool = 0
    /\ pools = [p \in PoolIds |-> NoPool]
    /\ call = NoCall /\ tasks = <<>> /\ res = NoRes /\ base = NoBase
    /\ \E n \in 3..MaxN, e \in BOOLEAN :
          \E x \in SampleVecs(n), y \in SampleVecs(n) :
              deriv = [N |-> n, edge |-> e, u |-> x, v |-> y,
                       fwd |-> <<>>, adj |-> <<>>, ncalls |-> 0]

BlockDiagVars == <<phase, ops, dtypeArg, degs, u, v, nops, mops, nnops, mmops, shape,
                   dtype, _nproc, pool, pools, call, tasks, res, base>>

\* Dop.matvec(u)
DerivMatvec ==
    /\ deriv.N > 0
    /\ deriv.fwd = <<>>
    /\ deriv' = [deriv EXCEPT !.fwd = SecondDerivative_matvec(deriv.N, deriv.edge, deriv.u),
                              !.ncalls = @ + 1]
    /\ UNCHANGED BlockDiagVars

\* Dop.rmatvec(v)
DerivRmatvec ==
    /\ deriv.N > 0
    /\ deriv.adj = <<>>
    /\ deriv' = [deriv EXCEPT !.adj = SecondDerivative_rmatvec(deriv.N, deriv.edge, deriv.v),
                              !.ncalls = @ + 1]
    /\ UNCHANGED BlockDiagVars

\* ------------------------------------------------------------ specification
\* An operator that is built and then applied, its number of processes
\* left as it was built.
NextApply ==
    \/ \E n \in degs : Construct(n)
    \/ \E n \in degs : ConstructFails(n)
    \/ \E dir \in Dirs, delta \in Deltas : ApplyRejected(dir, delta)
    \/ \E dir \in Dirs, delta \in Deltas : ApplySerial(dir, delta)
    \/ \E dir \in Dirs, delta \in Deltas : ApplyMultiproc(dir, delta)
    \/ WorkerTake
    \/ \E i \in 1..Len(tasks) : WorkerFinish(i)
    \/ StarmapReturn

Spec == Init /\ [][NextApply]_vars

\* The same operator with its nproc property set any number of times between
\* the calls. Once closed, a pool's worker processes do exit.
Next ==
    \/ NextApply
    \/ \E n \in degs : SetNproc(n)
    \/ \E n \in degs : SetNprocFails(n)
    \/ \E p \in PoolIds : WorkerExit(p)

SpecPool == InitPool /\ [][Next]_vars

\* Four sub-operators evaluated with one process or with four, the worker
\* processes of a closed pool being scheduled until they have exited.
InitLive == InitWith({<<OpA, ArrB, OpC, OpA>>}, {"None"}, {1, 4}, {"ramp", "imaginary"})
SpecLive == InitLive /\ [][Next]_vars /\ \A p \in PoolIds : WF_vars(WorkerExit(p))

\* A SecondDerivative applied forward and adjoint, in either order.
NextDeriv ==
    \/ DerivMatvec
    \/ DerivRmatvec

SpecDeriv == InitDeriv /\ [][NextDeriv]_vars

\* ------------------------------------------------------------------- claims
Built == phase \in {"ready", "busy"}
Applied == res.op \in Dirs
Expected(dir) == IF dir = "matvec" THEN shape[2] ELSE shape[1]

\* C1: a call evaluated through the pool returns exactly the vector the
\* serial loop returns for the same operator and the same input.
C1_ParallelEqualsSerial ==
    (Applied /\ res.mode > 1 /\ res.status = "ok")
        => /\ Serial(res.op, Input(res.op, 0)).ok
           /\ res.y = Serial(res.op, Input(res.op, 0)).y

\* A sub-operator is the adjoint pair the dot test asks for: on the unit
\* vectors, <b, L a> = <L^H b, a>.
Unit(n, j) == [k \in 1..n |-> IF k = j THEN <<1, 0>> ELSE <<0, 0>>]
AdjointPair(op) ==
    \A j \in 1..Shape(op)[2], i \in 1..Shape(op)[1] :
        VDot(Unit(Shape(op)[1], i), MatMul(op.A, Unit(Shape(op)[2], j)))
            = VDot(MatMul(op.AH, Unit(Shape(op)[1], i)), Unit(Shape(op)[2], j))
RealOp(op) == \A r \in 1..Len(op.A) : IsRealVec(op.A[r])
DotTestCase ==
    /\ Built /\ Applied /\ res.status = "ok"
    /\ \A i \in 1..Len(ops) : AdjointPair(ops[i]) /\ RealOp(ops[i]) /\ ~ops[i].raises
    /\ IsRealVec(u) /\ IsRealVec(v)

\* C2: when every sub-operator passes the dot test, so does the block
\* diagonal: <v, matvec(u)> = <rmatvec(v), u>, exactly, for integer-valued
\* sub-operators and vectors.
C2_DotTest ==
    DotTestCase =>
        IF res.op = "matvec"
        THEN /\ _rmatvec_serial(v).ok
             /\ VDot(v, res.y) = VDot(_rmatvec_serial(v).y, u)
        ELSE /\ _matvec_serial(u).ok
             /\ VDot(v, _matvec_serial(u).y) = VDot(res.y, u)
C2_Witness ==
    /\ DotTestCase /\ res.op = "rmatvec" /\ res.mode > 1
    /\ Len(ops) = 2 /\ shape = <<3, 2>> /\ VDot(res.y, u) # <<0, 0>>

\* C3: the shape is (sum of rows, sum of columns), nnops and mmops have one
\* entry more than there are sub-operators, start at 0 and grow by each
\* sub-operator's rows and columns; none of them changes once built.
OffsetsFrom(off, d) ==
    /\ Len(off) = Len(ops) + 1
    /\ off[1] = 0
    /\ \A i \in 1..Len(ops) : off[i + 1] = off[i] + Shape(ops[i])[d]
ShapeInv ==
    Built => /\ shape = <<SumDim(ops, 1, Len(ops)), SumDim(ops, 2, Len(ops))>>
             /\ nops = shape[1] /\ mops = shape[2]
             /\ OffsetsFrom(nnops, 1)
             /\ OffsetsFrom(mmops, 2)
C3_ShapeAndOffsets ==
    /\ []ShapeInv
    /\ [][Built => UNCHANGED <<shape, nops, mops, nnops, mmops>>]_vars
C3_Witness ==
    /\ Built /\ Len(ops) = 2 /\ shape = <<3, 3>>
    /\ nnops = <<0, 2, 3>> /\ mmops = <<0, 1, 3>> /\ Applied

\* C4: the part of the result between two consecutive output offsets is what
\* the sub-operator itself returns for the part of the input between its two
\* input offsets, and the parts tile the input and the result.
C4_Segments ==
    (Built /\ Applied /\ res.status = "ok") =>
        /\ Len(res.y) = OutLen(res.op)
        /\ OutOff(res.op)[Len(ops) + 1] = Len(res.y)
        /\ InOff(res.op)[Len(ops) + 1] = res.xlen
        /\ \A i \in 1..Len(ops) :
              /\ InOff(res.op)[i] <= InOff(res.op)[i + 1]
              /\ OutOff(res.op)[i] <= OutOff(res.op)[i + 1]
              /\ Slice(res.y, OutOff(res.op)[i], OutOff(res.op)[i + 1])
                    = LeafApply(ops[i], res.op, LeafArg(res.op, Input(res.op, 0), i)).y

\* C5: a call whose input has not the length the shape asks for ends in a
\* shape error and returns no vector, with one process or with several.
C5_ShapeMismatch ==
    (Built /\ Applied /\ res.xlen # Expected(res.op))
        => (res.status = "ShapeError" /\ res.y = <<>>)
C5_Witness ==
    /\ Built /\ res.op = "matvec" /\ res.status = "ShapeError"
    /\ res.mode > 1 /\ res.xlen = shape[2] + 1

\* The pools of this operator that still accept work.
RunningPools == {p \in PoolIds : pools[p].state = "RUN"}
PoolInv ==
    Built => /\ Cardinality(RunningPools) <= 1
             /\ (RunningPools # {}) <=> (_nproc > 1)
             /\ _nproc > 1 => /\ RunningPools = {pool}
                              /\ pools[pool].size = _nproc
                              /\ pools[pool].workers = _nproc
SetFailsStep == \E n \in degs : SetNprocFails(n)
SetStep == \E n \in degs : SetNproc(n)

\* C6: as long as no assignment to nproc has failed, the operator has at
\* most one pool that accepts work, it has one exactly when _nproc > 1, and
\* that pool is self.pool and has _nproc processes; every assignment that
\* succeeds leaves it so.
C6_OnePool ==
    /\ [][SetFailsStep \/ (PoolInv => PoolInv')]_vars
    /\ [][SetStep => PoolInv']_vars
C6_Witness ==
    /\ Built /\ res.op = "set_nproc" /\ res.status = "ok"
    /\ _nproc > 1 /\ pool = MaxPools /\ PoolInv
    /\ \E p \in PoolIds : pools[p].state = "CLOSE"

\* The state after nproc went 1 -> 4 -> 1 on four sub-operators, matvec(u)
\* having been evaluated before the changes and again after them.
AfterOneFourOne ==
    /\ Built /\ Len(ops) = 4 /\ _nproc = 1 /\ base.set
    /\ pools[1].state = "CLOSE" /\ pools[1].size = 4
    /\ \A p \in PoolIds \ {1} : pools[p].state = "NONE"
    /\ res.op = "matvec" /\ res.xlen = Expected("matvec")

\* C7: every assignment to nproc made while _nproc > 1 closes the pool in
\* use, the worker processes of a closed pool all exit, and after
\* 1 -> 4 -> 1 matvec returns what it returned before.
C7_Teardown ==
    /\ [][((SetStep \/ SetFailsStep) /\ _nproc > 1) => pools'[pool].state = "CLOSE"]_vars
    /\ \A p \in PoolIds : [](pools[p].state = "CLOSE" => <>(pools[p].workers = 0))
    /\ [](AfterOneFourOne => (res.status = "ok" /\ res.y = base.y))
C7_Witness ==
    /\ AfterOneFourOne /\ res.status = "ok" /\ res.y = base.y
    /\ pools[1].workers = 0

\* C8: an assignment to nproc that fails because mp.Pool raises leaves the
\* operator as it was: _nproc unchanged and, when _nproc > 1, self.pool still
\* a pool that accepts work.
C8_FailedSetKeepsPool ==
    (Built /\ res.op = "set_nproc" /\ res.status = "PoolError")
        => /\ _nproc > 1 => (pool \in PoolIds /\ pools[pool].state = "RUN")
           /\ _nproc = 1 => RunningPools = {}

\* C9: when a sub-operator raises, the call raises: it returns no vector,
\* and no sub-operator is applied a second time.
C9_LeafFailure ==
    (Built /\ Applied /\ res.xlen = Expected(res.op)
           /\ \E i \in 1..Len(ops) : ops[i].raises)
        => (res.status = "LeafError" /\ res.y = <<>> /\ res.n <= Len(ops))
C9_Witness ==
    /\ Built /\ Applied /\ res.status = "LeafError" /\ res.mode > 1
    /\ Len(ops) = 2 /\ ~ops[1].raises /\ ops[2].raises /\ res.n = 2

ApplyStep ==
    \/ \E dir \in Dirs, delta \in Deltas :
          ApplyRejected(dir, delta) \/ ApplySerial(dir, delta) \/ ApplyMultiproc(dir, delta)
    \/ WorkerTake
    \/ \E i \in 1..Len(tasks) : WorkerFinish(i)
    \/ StarmapReturn
OwnPool == IF pool \in PoolIds THEN pools[pool] ELSE NoPool

\* C10: no step of a matvec or rmatvec call changes the sub-operators, the
\* offsets, the shape, the dtype, _nproc or the pool, and the list of
\* sub-operators changes only in __init__.
C10_ApplyFrame ==
    /\ [][ApplyStep => /\ UNCHANGED <<ops, nops, mops, nnops, mmops, shape, dtype>>
                       /\ UNCHANGED <<_nproc, pool>>
                       /\ OwnPool' = OwnPool]_vars
    /\ [][ops' # ops => phase = "new"]_vars
C10_Witness ==
    /\ Built /\ Applied /\ res.status = "ok" /\ res.mode > 1
    /\ OwnPool.state = "RUN" /\ OwnPool.workers = _nproc
    /\ \E i \in 1..Len(ops) : ops[i] = MatrixMult(ArrB)

\* The stencil of the claim as a matrix: row i of an interior sample has
\* 1, -2, 1 at columns i - 1, i, i + 1; with edge, the first row has them at
\* columns 1, 2, 3 and the last at columns N - 2, N - 1, N (counted from 1);
\* without edge those two rows are zero.
Stencil(n, edge, i, j) ==
    LET c == IF i = 1 THEN 2 ELSE IF i = n THEN n - 1 ELSE i
    IN  IF (i = 1 \/ i = n) /\ ~edge THEN 0
        ELSE IF j = c THEN -2
        ELSE IF j = c - 1 \/ j = c + 1 THEN 1
        ELSE 0
RECURSIVE SumTo(_, _)
SumTo(f, n) == IF n = 0 THEN 0 ELSE SumTo(f, n - 1) + f[n]
IntDot(a, b) == SumTo([k \in 1..Len(a) |-> a[k] * b[k]], Len(a))
StencilTimes(n, edge, x) ==
    [i \in 1..n |-> SumTo([j \in 1..n |-> Stencil(n, edge, i, j) * x[j]], n)]
StencilTransposeTimes(n, edge, y) ==
    [j \in 1..n |-> SumTo([i \in 1..n |-> Stencil(n, edge, i, j) * y[i]], n)]
DerivDone == deriv.N >= 3 /\ deriv.fwd # <<>> /\ deriv.adj # <<>>

\* C11: for SecondDerivative of N >= 3 samples and sampling 1, edge off or
\* on, the forward is the stencil, the adjoint is the transpose of the same
\* stencil (each sample scattered with 1, -2, 1 to the columns of its row),
\* and <matvec(u), v> = <u, rmatvec(v)> for integer u and v.
C11_DerivAdjoint ==
    /\ (deriv.N >= 3 /\ deriv.fwd # <<>>)
          => deriv.fwd = StencilTimes(deriv.N, deriv.edge, deriv.u)
    /\ (deriv.N >= 3 /\ deriv.adj # <<>>)
          => deriv.adj = StencilTransposeTimes(deriv.N, deriv.edge, deriv.v)
    /\ DerivDone => IntDot(deriv.fwd, deriv.v) = IntDot(deriv.u, deriv.adj)
C11_Witness ==
    /\ DerivDone /\ deriv.edge /\ deriv.N = 3
    /\ deriv.v = <<2, 0, -1>> /\ deriv.adj = <<1, -2, 1>>
    /\ IntDot(deriv.fwd, deriv.v) # 0

====
